---- MODULE Spec2Model ----
(***************************************************************************)
(* A model of examples/binary_mclp_distance_matrix.py: the coverage        *)
(* builder generate_binary_coverage_from_dist_matrix and the pipeline      *)
(* binary_mclp_distance_matrix (field check, builder, external model and   *)
(* solver, result summary).                                                *)
(*                                                                         *)
(* A CSV row is a function from the header's field names to string tokens, *)
(* as csv.DictReader produces it.  float() is modelled by ToFloat, a       *)
(* lookup from tokens to integers (values that are exactly representable). *)
(* A Python exception or sys.exit ends a run; it is recorded in `outcome`. *)
(***************************************************************************)
EXTENDS Integers, Sequences, FiniteSets, TLC

VARIABLES
    header,                 \* field names of the CSV file's header line
    rows,                   \* dict_pairwise_distance: the rows read from the file
    pc,                     \* position of the run: the last step completed, or
                            \* ("check", "build", "summary") the step that ended it
    outcome,                \* "none" while running, else how the run ended
    stdout,                 \* messages printed
    list_field_req,         \* argument of binary_mclp_distance_matrix
    service_dist,           \* argument (dist_threshold of the builder)
    facility_variable_name, \* argument (fl_variable_name of the builder)
    dict_coverage,          \* the builder's return value
    set_facility_id_chosen, \* ids extracted from the solved model
    result_coverage         \* the pipeline's return value

vars == <<header, rows, pc, outcome, stdout, list_field_req, service_dist,
          facility_variable_name, dict_coverage, set_facility_id_chosen,
          result_coverage>>

-----------------------------------------------------------------------------
(* Bounds and input domains *)

MaxRows == 3        \* longest row sequence handed to the builder directly
MaxFileRows == 2    \* longest CSV file handed to the pipeline

FieldNames == {"facility_id", "demand_id", "demand", "distance"}
FacilityIds == {"F1", "F2"}
DemandIds == {"D1", "D2"}
WeightTokens == {"-1", "0", "1"}
DistanceTokens == {"1", "2"}
Thresholds == {1, 2}
FlVariableNames == {"None", "store"}
PipelineVariableNames == {"facility", "store"}
FieldLists == {<<"facility_id", "demand_id", "demand", "distance">>,
               <<"facility_id", "demand_id">>}

Unset == "unset"

FullRows ==
    {[facility_id |-> f, demand_id |-> d, demand |-> w, distance |-> x] :
        f \in FacilityIds, d \in DemandIds, w \in WeightTokens, x \in DistanceTokens}

RowsOver(h) == {[k \in h |-> r[k]] : r \in FullRows}

Headers == {FieldNames} \cup {FieldNames \ {f} : f \in FieldNames}

SeqsUpTo(S, n) == UNION {[1..k -> S] : k \in 0..n}

-----------------------------------------------------------------------------
(* Conversions *)

\* float(s) for the tokens of the model
ToFloat(s) ==
    CASE s = "-1" -> -1
      [] s = "0" -> 0
      [] s = "1" -> 1
      [] s = "2" -> 2

\* str(x) of a value that is already a string
Str(s) == s

-----------------------------------------------------------------------------
(* generate_binary_coverage_from_dist_matrix *)

EmptyDict == [k \in {} |-> 0]

\* lines 28-29
DefaultVariableName(fl_variable_name) ==
    IF fl_variable_name = "None" THEN "facility" ELSE fl_variable_name

\* lines 33-44
InitialOutput(v) ==
    [version |-> "1",
     type |-> [mode |-> "coverage", type |-> "binary"],
     demand |-> EmptyDict,
     totalDemand |-> 0,
     totalServiceableDemand |-> 0,
     facilities |-> [k \in {v} |-> {}]]

\* the fields a row is indexed with by the builder
BuilderFields == {"facility_id", "demand_id", "demand", "distance"}

\* lines 53-58: the entry created for a demand id
NewDemandEntry(row, v) ==
    [area |-> 0,
     demand |-> ToFloat(row["demand"]),
     serviceableDemand |-> 0,
     coverage |-> [k \in {v} |-> {}]]

\* AddDemand storing the entry under the row's facility id
AddDemandWrongKey(demand, row, v) ==
    LET new_demand_id == Str(row["facility_id"])
    IN IF new_demand_id \notin DOMAIN demand
          THEN (new_demand_id :> NewDemandEntry(row, v)) @@ demand
          ELSE demand

\* AddDemand without the test for a demand id seen before: a later row
\* replaces the entry
AddDemandOverwrite(demand, row, v) ==
    (Str(row["demand_id"]) :> NewDemandEntry(row, v)) @@ demand

\* lines 52-59: the demand dictionary after one row of the first loop
AddDemand(demand, row, v) ==
    LET new_demand_id == Str(row["demand_id"])
    IN IF new_demand_id \notin DOMAIN demand
          THEN (new_demand_id :> NewDemandEntry(row, v)) @@ demand
          ELSE demand

\* lines 48-59: the first loop, rows i..Len(rs)
RECURSIVE FirstLoop(_, _, _, _)
FirstLoop(rs, v, i, st) ==
    IF i > Len(rs) THEN st
    ELSE FirstLoop(rs, v, i + 1,
            [set_facility_id |-> st.set_facility_id \cup {Str(rs[i]["facility_id"])},
             demand |-> AddDemand(st.demand, rs[i], v)])

\* WithinThreshold with a strict comparison
WithinThresholdStrict(distance, dist_threshold) == distance < dist_threshold

\* line 71
WithinThreshold(distance, dist_threshold) == distance <= dist_threshold

\* MarkServiceable accumulating the weight once per covering row
MarkServiceableAdditive(entry) ==
    [entry EXCEPT !.serviceableDemand = @ + entry.demand]

\* lines 72-73
MarkServiceable(entry) == [entry EXCEPT !.serviceableDemand = entry.demand]

\* AddCoverage replacing the coverage dictionary instead of adding a key
AddCoverageOverwrite(coverage, v, fid) == [coverage EXCEPT ![v] = {fid}]

\* line 74
AddCoverage(coverage, v, fid) == [coverage EXCEPT ![v] = @ \cup {fid}]

\* lines 71-74: the demand dictionary after one row of the second loop
CoverRow(demand, row, dist_threshold, v) ==
    IF WithinThreshold(ToFloat(row["distance"]), dist_threshold)
       THEN LET d == Str(row["demand_id"])
                e == MarkServiceable(demand[d])
            IN [demand EXCEPT ![d] =
                    [e EXCEPT !.coverage = AddCoverage(e.coverage, v, Str(row["facility_id"]))]]
       ELSE demand

\* lines 68-74: the second loop, rows i..Len(rs)
RECURSIVE SecondLoop(_, _, _, _, _)
SecondLoop(rs, dist_threshold, v, i, demand) ==
    IF i > Len(rs) THEN demand
    ELSE SecondLoop(rs, dist_threshold, v, i + 1, CoverRow(demand, rs[i], dist_threshold, v))

\* AddTotals adding the demand weight to both totals
AddTotalsDemandTwice(tot, entry) ==
    [totalServiceableDemand |-> tot.totalServiceableDemand + entry.demand,
     totalDemand |-> tot.totalDemand + entry.demand]

\* lines 78-79: the totals after one entry of the third loop
AddTotals(tot, entry) ==
    [totalServiceableDemand |-> tot.totalServiceableDemand + entry.serviceableDemand,
     totalDemand |-> tot.totalDemand + entry.demand]

\* lines 77-79: the third loop over the entries with keys in ks
RECURSIVE ThirdLoop(_, _, _)
ThirdLoop(demand, ks, tot) ==
    IF ks = {} THEN tot
    ELSE LET k == CHOOSE x \in ks : TRUE
         IN ThirdLoop(demand, ks \ {k}, AddTotals(tot, demand[k]))

\* lines 13-81: the return value, or the KeyError of indexing a row with a
\* field it does not have
GenerateBinaryCoverage(rs, dist_threshold, fl_variable_name) ==
    LET v == DefaultVariableName(fl_variable_name)
        out0 == InitialOutput(v)
    IN IF \E i \in 1..Len(rs) : ~(BuilderFields \subseteq DOMAIN rs[i])
          THEN [error |-> "KeyError"]
          ELSE LET st == FirstLoop(rs, v, 1, [set_facility_id |-> {}, demand |-> out0.demand])
                   demand == SecondLoop(rs, dist_threshold, v, 1, st.demand)
                   tot == ThirdLoop(demand, DOMAIN demand,
                              [totalServiceableDemand |-> out0.totalServiceableDemand,
                               totalDemand |-> out0.totalDemand])
               IN [error |-> "none",
                   output |-> [out0 EXCEPT
                       !.demand = demand,
                       !.facilities = [k \in {v} |-> st.set_facility_id],
                       !.totalServiceableDemand = tot.totalServiceableDemand,
                       !.totalDemand = tot.totalDemand]]

-----------------------------------------------------------------------------
(* binary_mclp_distance_matrix *)

\* MissingFields testing only the first field of the list
MissingFieldsFirstOnly(fields, item) ==
    SelectSeq(SubSeq(fields, 1, 1), LAMBDA f : f \notin DOMAIN item)

\* lines 102-103: the fields of list_field_req the sample row lacks, in order
MissingFields(fields, item) == SelectSeq(fields, LAMBDA f : f \notin DOMAIN item)

\* line 135: set_facility_id_chosen.isdisjoint(keys)
IsDisjoint(chosen, keys) == chosen \cap keys = {}

\* lines 133-136: the loop over the demand entries with keys in ks; reading
\* coverage["facility"] of an entry that has no such key raises KeyError
RECURSIVE CoveredLoop(_, _, _, _)
CoveredLoop(demand, chosen, ks, total) ==
    IF ks = {} THEN [error |-> "none", total |-> total]
    ELSE LET k == CHOOSE x \in ks : TRUE
             demand_obj == demand[k]
         IN IF "facility" \notin DOMAIN demand_obj.coverage
               THEN [error |-> "KeyError", total |-> total]
               ELSE CoveredLoop(demand, chosen, ks \ {k},
                        IF ~IsDisjoint(chosen, demand_obj.coverage["facility"])
                           THEN total + demand_obj.demand
                           ELSE total)

Abs(n) == IF n < 0 THEN -n ELSE n

RECURSIVE Gcd(_, _)
Gcd(a, b) == IF b = 0 THEN a ELSE Gcd(b, a % b)

\* Divide with IEEE semantics: a zero divisor yields a value (inf or nan)
DivideUnguarded(a, b) ==
    [error |-> "none", value |-> [num |-> a, den |-> b]]

\* line 146: a / b of two floats: ZeroDivisionError when b is zero, else the
\* quotient, kept exact as a fraction in lowest terms with a positive denominator
Divide(a, b) ==
    IF b = 0 THEN [error |-> "ZeroDivisionError"]
    ELSE LET g == Gcd(Abs(a), Abs(b))
             s == IF b < 0 THEN -1 ELSE 1
         IN [error |-> "none", value |-> [num |-> (s * a) \div g, den |-> (s * b) \div g]]

\* lines 130-148: the summary of a coverage object and the chosen ids.  The
\* record's number_facility echoes the argument num_facility, which nothing
\* else in the file reads; it is left out.
Summarize(coverage, chosen) ==
    LET c == CoveredLoop(coverage.demand, chosen, DOMAIN coverage.demand, 0)
    IN IF c.error # "none" THEN [error |-> c.error]
       ELSE LET q == Divide(100 * c.total, coverage.totalDemand)
            IN IF q.error # "none" THEN [error |-> q.error]
               ELSE [error |-> "none",
                     result |-> [number_facility_chosen |-> Cardinality(chosen),
                                 set_facility_id_chosen |-> chosen,
                                 total_demand |-> coverage.totalDemand,
                                 percent_demand_coverage |-> q.value]]

-----------------------------------------------------------------------------
(* The pipeline as a state machine *)

Init ==
    /\ header \in Headers
    /\ rows \in SeqsUpTo(RowsOver(header), MaxFileRows)
    /\ pc = "start"
    /\ outcome = "none"
    /\ stdout = <<>>
    /\ list_field_req = Unset
    /\ service_dist = Unset
    /\ facility_variable_name = Unset
    /\ dict_coverage = Unset
    /\ set_facility_id_chosen = Unset
    /\ result_coverage = Unset

\* lines 99-105
CheckFields ==
    /\ pc = "start"
    /\ \E fields \in FieldLists :
        /\ list_field_req' = fields
        /\ IF Len(rows) < 2
              THEN /\ pc' = "check"
                   /\ outcome' = "IndexError"
                   /\ stdout' = stdout
              ELSE LET missing == MissingFields(fields, rows[2])
                   IN IF missing # <<>>
                         THEN /\ pc' = "check"
                              /\ outcome' = "exit(0)"
                              /\ stdout' = Append(stdout, <<"Error: field not found", Head(missing)>>)
                         ELSE /\ pc' = "checked"
                              /\ outcome' = outcome
                              /\ stdout' = stdout
    /\ UNCHANGED <<header, rows, service_dist, facility_variable_name,
                   dict_coverage, set_facility_id_chosen, result_coverage>>

\* line 108
Build ==
    /\ pc = "checked"
    /\ \E t \in Thresholds, v \in PipelineVariableNames :
        /\ service_dist' = t
        /\ facility_variable_name' = v
        /\ LET r == GenerateBinaryCoverage(rows, t, v)
           IN IF r.error # "none"
                 THEN /\ pc' = "build"
                      /\ outcome' = r.error
                      /\ dict_coverage' = dict_coverage
                 ELSE /\ pc' = "built"
                      /\ outcome' = outcome
                      /\ dict_coverage' = r.output
    /\ UNCHANGED <<header, rows, stdout, list_field_req,
                   set_facility_id_chosen, result_coverage>>

\* lines 112-125: the model is built and solved outside this file; any set of
\* facility ids may come back
Solve ==
    /\ pc = "built"
    /\ \E chosen \in SUBSET FacilityIds : set_facility_id_chosen' = chosen
    /\ pc' = "solved"
    /\ UNCHANGED <<header, rows, outcome, stdout, list_field_req, service_dist,
                   facility_variable_name, dict_coverage, result_coverage>>

\* lines 130-148
Summary ==
    /\ pc = "solved"
    /\ LET s == Summarize(dict_coverage, set_facility_id_chosen)
       IN IF s.error # "none"
             THEN /\ pc' = "summary"
                  /\ outcome' = s.error
                  /\ result_coverage' = result_coverage
             ELSE /\ pc' = "returned"
                  /\ outcome' = "returned"
                  /\ result_coverage' = s.result
    /\ UNCHANGED <<header, rows, stdout, list_field_req, service_dist,
                   facility_variable_name, dict_coverage, set_facility_id_chosen>>

Next == CheckFields \/ Build \/ Solve \/ Summary

Spec == Init /\ [][Next]_vars

-----------------------------------------------------------------------------
(* The builder called on its own *)

InitBuilder ==
    /\ header = FieldNames
    /\ rows \in SeqsUpTo(FullRows, MaxRows)
    /\ pc = "call"
    /\ outcome = "none"
    /\ stdout = <<>>
    /\ list_field_req = Unset
    /\ service_dist = Unset
    /\ facility_variable_name = Unset
    /\ dict_coverage = Unset
    /\ set_facility_id_chosen = Unset
    /\ result_coverage = Unset

\* lines 13-81
CallBuilder ==
    /\ pc = "call"
    /\ \E t \in Thresholds, v \in FlVariableNames :
        /\ service_dist' = t
        /\ facility_variable_name' = v
        /\ dict_coverage' = GenerateBinaryCoverage(rows, t, v).output
    /\ pc' = "built"
    /\ UNCHANGED <<header, rows, outcome, stdout, list_field_req,
                   set_facility_id_chosen, result_coverage>>

NextBuilder == CallBuilder

SpecBuilder == InitBuilder /\ [][NextBuilder]_vars

-----------------------------------------------------------------------------
(* Notions the properties are stated with *)

\* the name the coverage sets are stored under
StoredName == DefaultVariableName(facility_variable_name)

DemandEntries == dict_coverage.demand

CoverageOf(d) == DemandEntries[d].coverage[StoredName]

RowsOf(rs, d) == {i \in 1..Len(rs) : rs[i]["demand_id"] = d}

\* some row pairs facility f with demand d within the threshold
RowCovers(f, d) ==
    \E i \in RowsOf(rows, d) :
        rows[i]["facility_id"] = f /\ ToFloat(rows[i]["distance"]) <= service_dist

RowWithin(d) == \E f \in FacilityIds : RowCovers(f, d)

FirstRow(rs, d) == CHOOSE i \in RowsOf(rs, d) : \A j \in RowsOf(rs, d) : i <= j

FirstWeight(rs, d) == ToFloat(rs[FirstRow(rs, d)]["demand"])

RECURSIVE SetSum(_, _)
SetSum(w, S) ==
    IF S = {} THEN 0
    ELSE LET x == CHOOSE y \in S : TRUE IN w[x] + SetSum(w, S \ {x})

BuilderReturned == pc = "built"

-----------------------------------------------------------------------------
(* Properties of the builder, under SpecBuilder *)

\* C1: in the returned coverage object, facility f is in the coverage set of
\* demand unit d iff some row pairs f with d at a distance <= the threshold
\* (a distance equal to the threshold covers).
C1_CoverageIffRowWithinThreshold ==
    BuilderReturned =>
        \A d \in DOMAIN DemandEntries : \A f \in FacilityIds :
            f \in CoverageOf(d) <=> RowCovers(f, d)

C1_Witness ==
    /\ BuilderReturned
    /\ \E i \in 1..Len(rows) :
        /\ ToFloat(rows[i]["distance"]) = service_dist
        /\ rows[i]["facility_id"] \in CoverageOf(rows[i]["demand_id"])
    /\ \E i \in 1..Len(rows) :
        /\ ToFloat(rows[i]["distance"]) > service_dist
        /\ rows[i]["facility_id"] \notin CoverageOf(rows[i]["demand_id"])

\* C2 as stated: totalServiceableDemand <= totalDemand, with equality iff
\* every demand unit has a non-empty coverage set.
C2_TotalsAsStated ==
    BuilderReturned =>
        /\ dict_coverage.totalServiceableDemand <= dict_coverage.totalDemand
        /\ (dict_coverage.totalServiceableDemand = dict_coverage.totalDemand
              <=> \A d \in DOMAIN DemandEntries : CoverageOf(d) # {})

\* C2 amended: when no stored demand weight is negative,
\* totalServiceableDemand <= totalDemand, with equality iff every demand unit
\* of non-zero weight has a non-empty coverage set.
C2_TotalsNonNegativeWeights ==
    (BuilderReturned /\ \A d \in DOMAIN DemandEntries : DemandEntries[d].demand >= 0) =>
        /\ dict_coverage.totalServiceableDemand <= dict_coverage.totalDemand
        /\ (dict_coverage.totalServiceableDemand = dict_coverage.totalDemand
              <=> \A d \in DOMAIN DemandEntries :
                      DemandEntries[d].demand # 0 => CoverageOf(d) # {})

C2_Witness ==
    /\ BuilderReturned
    /\ \A d \in DOMAIN DemandEntries : DemandEntries[d].demand >= 0
    /\ \E d \in DOMAIN DemandEntries : DemandEntries[d].demand = 0 /\ CoverageOf(d) = {}
    /\ \E d \in DOMAIN DemandEntries : DemandEntries[d].demand > 0 /\ CoverageOf(d) # {}
    /\ dict_coverage.totalServiceableDemand = dict_coverage.totalDemand

\* C3 as stated: serviceableDemand is 0 or the unit's own weight, and it
\* equals the weight exactly when some row of the unit is within the threshold.
C3_ServiceableAsStated ==
    BuilderReturned =>
        \A d \in DOMAIN DemandEntries :
            /\ DemandEntries[d].serviceableDemand \in {0, DemandEntries[d].demand}
            /\ (DemandEntries[d].serviceableDemand = DemandEntries[d].demand <=> RowWithin(d))

\* C3 amended: serviceableDemand is the unit's own weight when some row of
\* the unit is within the threshold and 0 otherwise, however many rows cover it.
C3_ServiceableFullWeightOrZero ==
    BuilderReturned =>
        \A d \in DOMAIN DemandEntries :
            DemandEntries[d].serviceableDemand =
                IF RowWithin(d) THEN DemandEntries[d].demand ELSE 0

C3_Witness ==
    /\ BuilderReturned
    /\ \E d \in DOMAIN DemandEntries :
        /\ Cardinality(CoverageOf(d)) = 2
        /\ DemandEntries[d].demand # 0
        /\ DemandEntries[d].serviceableDemand = DemandEntries[d].demand
    /\ \E d \in DOMAIN DemandEntries :
        DemandEntries[d].demand # 0 /\ DemandEntries[d].serviceableDemand = 0

\* C4: the keys of the demand mapping are exactly the distinct demand ids of
\* the rows (one entry per id, whether it occurs once, many times, or only in
\* rows beyond the threshold).
C4_DemandKeysAreRowDemandIds ==
    BuilderReturned =>
        DOMAIN DemandEntries = {rows[i]["demand_id"] : i \in 1..Len(rows)}

C4_Witness ==
    /\ BuilderReturned
    /\ Cardinality(DOMAIN DemandEntries) = 2
    /\ \E d \in DOMAIN DemandEntries : Cardinality(RowsOf(rows, d)) = 2
    /\ \E d \in DOMAIN DemandEntries : ~RowWithin(d)

\* C9: the stored weight of a demand unit is the weight of the first row
\* carrying its id; serviceableDemand and both totals are computed from it.
C9_FirstSeenWeight ==
    BuilderReturned =>
        LET ids == DOMAIN DemandEntries
            w == [d \in ids |-> FirstWeight(rows, d)]
        IN /\ \A d \in ids : DemandEntries[d].demand = w[d]
           /\ \A d \in ids : DemandEntries[d].serviceableDemand = IF RowWithin(d) THEN w[d] ELSE 0
           /\ dict_coverage.totalDemand = SetSum(w, ids)
           /\ dict_coverage.totalServiceableDemand = SetSum(w, {d \in ids : RowWithin(d)})

C9_Witness ==
    /\ BuilderReturned
    /\ \E i, j \in 1..Len(rows) :
        /\ i < j
        /\ rows[i]["demand_id"] = rows[j]["demand_id"]
        /\ rows[i]["demand"] # rows[j]["demand"]
        /\ \A k \in 1..(i - 1) : rows[k]["demand_id"] # rows[i]["demand_id"]
        /\ DemandEntries[rows[i]["demand_id"]].demand = ToFloat(rows[i]["demand"])
        /\ DemandEntries[rows[i]["demand_id"]].serviceableDemand = ToFloat(rows[i]["demand"])
        /\ ToFloat(rows[i]["demand"]) # 0

-----------------------------------------------------------------------------
(* Properties of the pipeline, under Spec *)

\* the summary step has run (to its return or to an exception)
Summarized == pc \in {"returned", "summary"}

\* the loop of the summary finished, so line 146 is evaluated
PercentReached ==
    /\ Summarized
    /\ \A d \in DOMAIN DemandEntries : "facility" \in DOMAIN DemandEntries[d].coverage

NoPercent == [num |-> 0, den |-> 0]

\* how the run ended and the percentage it returned
ActualPercent ==
    [outcome |-> outcome,
     percent |-> IF outcome = "returned"
                    THEN result_coverage.percent_demand_coverage ELSE NoPercent]

\* the same for the builder followed by the summary on given arguments
RunPercent(rs, t, v, chosen) ==
    LET s == Summarize(GenerateBinaryCoverage(rs, t, v).output, chosen)
    IN [outcome |-> IF s.error = "none" THEN "returned" ELSE s.error,
        percent |-> IF s.error = "none"
                       THEN s.result.percent_demand_coverage ELSE NoPercent]

\* the weights of the demand units covered by a chosen facility, each once
CoveredWeight ==
    SetSum([d \in DOMAIN DemandEntries |-> DemandEntries[d].demand],
           {d \in DOMAIN DemandEntries : CoverageOf(d) \cap set_facility_id_chosen # {}})

\* rs with the rows of demand unit d permuted among their positions
UnitPermutations(rs, d) ==
    {[i \in 1..Len(rs) |-> rs[p[i]]] :
        p \in {q \in Permutations(1..Len(rs)) :
                 \A i \in 1..Len(rs) : rs[i]["demand_id"] # d => q[i] = i}}

\* C5: with totalDemand > 0 the summary returns
\* percent_demand_coverage = 100 * C / totalDemand, C the sum of the weights
\* of the demand units whose coverage set meets the chosen set (each once).
C5_PercentIsCoveredShare ==
    (Summarized /\ dict_coverage.totalDemand > 0) =>
        /\ outcome = "returned"
        /\ result_coverage.percent_demand_coverage.den > 0
        /\ result_coverage.percent_demand_coverage.num * dict_coverage.totalDemand
              = 100 * CoveredWeight * result_coverage.percent_demand_coverage.den

\* C6: when line 146 is reached with totalDemand = 0 the run ends in
\* ZeroDivisionError and returns no result record.
C6_ZeroTotalDemandRaises ==
    (PercentReached /\ dict_coverage.totalDemand = 0) =>
        /\ pc = "summary"
        /\ outcome = "ZeroDivisionError"
        /\ result_coverage = Unset

C6_Witness ==
    /\ PercentReached
    /\ dict_coverage.totalDemand = 0
    /\ outcome = "ZeroDivisionError"
    /\ DOMAIN DemandEntries # {}

\* some field of list_field_req is absent from the sample row
SampleRowLacksField ==
    \E i \in 1..Len(list_field_req) : list_field_req[i] \notin DOMAIN rows[2]

\* C7: if a field of list_field_req is absent from the sample row the run
\* prints an error and exits with status 0 before the builder, the solver or
\* the summary runs; those run only after every required field was found.
C7_MissingFieldExitsBeforeBuild ==
    /\ (pc # "start" /\ Len(rows) >= 2 /\ SampleRowLacksField) =>
          /\ pc = "check"
          /\ outcome = "exit(0)"
          /\ Len(stdout) = 1
          /\ dict_coverage = Unset
          /\ set_facility_id_chosen = Unset
          /\ result_coverage = Unset
    /\ pc \in {"checked", "build", "built", "solved", "summary", "returned"} =>
          /\ Len(rows) >= 2
          /\ ~SampleRowLacksField
          /\ stdout = <<>>

C7_Witness ==
    /\ pc = "check"
    /\ outcome = "exit(0)"
    /\ header = FieldNames \ {"distance"}
    /\ Len(list_field_req) = 4
    /\ dict_coverage = Unset

\* C8: whatever facility variable name is passed, the run does not fail on a
\* missing coverage key and returns the percentage it returns for any other name.
C8_VariableNameIrrelevant ==
    Summarized =>
        /\ outcome # "KeyError"
        /\ \A v \in PipelineVariableNames :
              RunPercent(rows, service_dist, v, set_facility_id_chosen) = ActualPercent

\* C10 as stated: permuting the rows of one demand unit leaves the outcome of
\* the builder followed by the summary unchanged.
C10_UnitRowOrderAsStated ==
    Summarized =>
        \A d \in DemandIds : \A rs \in UnitPermutations(rows, d) :
            RunPercent(rs, service_dist, facility_variable_name, set_facility_id_chosen)
                = ActualPercent

\* C10 amended: permuting the rows of one demand unit leaves the outcome
\* unchanged when the unit's first row carries the same weight before and after.
C10_UnitRowOrderSameFirstWeight ==
    Summarized =>
        \A d \in DemandIds : \A rs \in UnitPermutations(rows, d) :
            (RowsOf(rows, d) # {} => FirstWeight(rs, d) = FirstWeight(rows, d)) =>
                RunPercent(rs, service_dist, facility_variable_name, set_facility_id_chosen)
                    = ActualPercent

C10_Witness ==
    /\ pc = "returned"
    /\ \E d \in DOMAIN DemandEntries :
        /\ Cardinality(CoverageOf(d)) = 2
        /\ Cardinality(set_facility_id_chosen) = 1
        /\ \E rs \in UnitPermutations(rows, d) : rs # rows
    /\ result_coverage.percent_demand_coverage = [num |-> 100, den |-> 1]

====
